---- MODULE Spec2Model ----
(***************************************************************************)
(* Model of client/gui-gtk-2.0/chatline.c: the chat input line with its    *)
(* history list, and the chat output window (a GtkTextBuffer shown by the  *)
(* in-game and the pregame text views).                                    *)
(*                                                                         *)
(* Texts are sequences of one-character strings; "\n" is the newline.      *)
(* The GUI runs all handlers on one thread, so every handler is one        *)
(* atomic action.  `handler` names the handler that ran last and `calls`   *)
(* is the trace of the calls it made into the toolkit and the rest of the  *)
(* client, in program order.                                               *)
(***************************************************************************)
EXTENDS Integers, Sequences, FiniteSets, TLC

VARIABLES
  history_list,            \* chatline.c:38, head (newest) first
  history_pos,             \* chatline.c:39
  entry_text,              \* text of the GtkEntry the handler is attached to
  chat_sent,               \* texts handed to send_chat(), oldest first
  message_buffer,          \* the GtkTextBuffer of the output window, or null
  main_message_area,       \* in-game text view, or null
  start_message_area,      \* pregame text view, or null
  show_chat_message_time,  \* client option read at chatline.c:115
  handler,                 \* the handler that ran last
  calls,                   \* the calls it made, in program order
  alive                    \* FALSE once the process has died

vars == <<history_list, history_pos, entry_text, chat_sent, message_buffer,
          main_message_area, start_message_area, show_chat_message_time,
          handler, calls, alive>>

chat_vars == <<history_list, history_pos, entry_text, chat_sent>>
output_vars == <<message_buffer, main_message_area, start_message_area>>

(***************************************************************************)
(* Bounds of the model.                                                    *)
(***************************************************************************)
\* The cap of the history list.  chatline.h, which sets it, is not part of
\* the sources at hand; the handler only compares against it, so the model
\* is parametric in it.
MAX_CHATLINE_HISTORY == 3
\* No more than this many chat lines are sent in one behaviour.
MaxSubmit == 5
\* No append to an output window that already holds this many newlines.
MaxLines == 2
\* Largest scroll value of a view's vertical adjustment.
MaxValue == 1
\* Page size of a view's vertical adjustment.
PageSize == 2

(***************************************************************************)
(* Generic helpers.                                                        *)
(***************************************************************************)
Max(a, b) == IF a > b THEN a ELSE b

\* One record shape for every call in the trace.
\* `num` is the number the call takes or returns: a buffer offset, a time.
Call(fn, view, text, num) ==
  [fn |-> fn, view |-> view, text |-> text, num |-> num]

\* No offset: below every offset of a buffer.
NoOffset == 0 - 1

(***************************************************************************)
(* The chat input line.                                                    *)
(***************************************************************************)
\* Texts the user may have typed when the entry is activated.
InputTexts == {<<>>, <<"a">>, <<"b">>, <<"a", "b">>}

\* A history entry is a heap string: its address and its characters.
\* mystrdup(): a fresh allocation holding a copy of the characters.  The
\* allocations of a run are numbered in order, and an address is not reused.
mystrdup(str, ptr) == [ptr |-> ptr, str |-> [i \in 1..Len(str) |-> str[i]]]

\* genlist_size
genlist_size(list) == Len(list)

\* genlist_get(list, idx): the data of link idx, counted from 0 at the head;
\* idx -1 is the last link
genlist_get(list, idx) == IF idx = -1 THEN list[Len(list)] ELSE list[idx + 1]

\* genlist_unlink(list, data): removes the first link, from the head, whose
\* data pointer is `data`.
genlist_unlink(list, data) ==
  LET hits == {i \in 1..Len(list) : list[i].ptr = data.ptr}
  IN IF hits = {} THEN list
     ELSE LET k == CHOOSE i \in hits : \A j \in hits : i <= j
          IN SubSeq(list, 1, k - 1) \o SubSeq(list, k + 1, Len(list))

\* genlist_prepend
genlist_prepend(list, data) == <<data>> \o list

\* history_store with the size test of line 54 off by one (> for >=).
history_store_late_trim(list, theinput, ptr) ==
  LET trimmed == IF genlist_size(list) > MAX_CHATLINE_HISTORY
                 THEN genlist_unlink(list, genlist_get(list, -1))
                 ELSE list
  IN genlist_prepend(trimmed, mystrdup(theinput, ptr))

\* history_store dropping the head of a full list (index 0 for -1 at line 57).
history_store_drop_head(list, theinput, ptr) ==
  LET trimmed == IF genlist_size(list) >= MAX_CHATLINE_HISTORY
                 THEN genlist_unlink(list, genlist_get(list, 0))
                 ELSE list
  IN genlist_prepend(trimmed, mystrdup(theinput, ptr))

\* The history list after inputline_return stored `theinput` (lines 54-62).
history_store(list, theinput, ptr) ==
  LET trimmed == IF genlist_size(list) >= MAX_CHATLINE_HISTORY
                 THEN genlist_unlink(list, genlist_get(list, -1))
                 ELSE list
  IN genlist_prepend(trimmed, mystrdup(theinput, ptr))

\* The user edits the entry; gtk_entry_get_text (line 49) reads the result.
entry_changed(text) ==
  /\ alive
  /\ entry_text # text
  /\ entry_text' = text
  /\ handler' = "entry_changed"
  /\ calls' = <<>>
  /\ UNCHANGED <<history_list, history_pos, chat_sent, output_vars,
                 show_chat_message_time, alive>>

\* inputline_return: the "activate" handler of the entry.
inputline_return ==
  /\ alive
  /\ handler' = "inputline_return"
  /\ LET theinput == entry_text
     IN IF theinput # <<>>
        THEN /\ Len(chat_sent) < MaxSubmit
             /\ chat_sent' = Append(chat_sent, theinput)
             /\ history_list' =
                  history_store(history_list, theinput, Len(chat_sent) + 1)
             /\ history_pos' = -1
             /\ calls' = <<Call("send_chat", "", theinput, NoOffset),
                           Call("gtk_entry_set_text", "", <<>>, NoOffset)>>
        ELSE /\ UNCHANGED <<chat_sent, history_list, history_pos>>
             /\ calls' = <<Call("gtk_entry_set_text", "", <<>>, NoOffset)>>
  /\ entry_text' = <<>>
  /\ UNCHANGED <<output_vars, show_chat_message_time, alive>>

(***************************************************************************)
(* The toolkit objects of the output window.                               *)
(***************************************************************************)
\* A text buffer: its characters and its marks.  A mark sits between two
\* characters: offset k is after the first k characters.
NullBuffer == [null |-> TRUE, text |-> <<>>, marks |-> <<>>]

Mark(offset, left_gravity) ==
  [offset |-> offset, left_gravity |-> left_gravity]

\* gtk_text_buffer_new: an empty buffer with the two built-in marks, both
\* with right gravity.
NewBuffer ==
  [null |-> FALSE, text |-> <<>>,
   marks |-> [m \in {"insert", "selection_bound"} |-> Mark(0, FALSE)]]

\* gtk_text_buffer_get_end_iter
gtk_text_buffer_get_end_iter(buf) == Len(buf.text)

\* gtk_text_buffer_insert(buf, iter, text, -1): the text goes in at the
\* iterator.  Marks after the insertion point move right with the text
\* behind them; a mark at the insertion point stays left of the new text if
\* it has left gravity and ends up right of it otherwise.
gtk_text_buffer_insert(buf, iter, text) ==
  [buf EXCEPT
     !.text = SubSeq(buf.text, 1, iter) \o text
              \o SubSeq(buf.text, iter + 1, Len(buf.text)),
     !.marks = [m \in DOMAIN buf.marks |->
                 LET mk == buf.marks[m]
                 IN IF mk.offset > iter \/ (mk.offset = iter /\ ~mk.left_gravity)
                    THEN Mark(mk.offset + Len(text), mk.left_gravity)
                    ELSE mk]]

\* The iterator passed to gtk_text_buffer_insert is revalidated to point to
\* the end of the inserted text.
iter_after_insert(iter, text) == iter + Len(text)

\* Names for anonymous marks.
AnonMarks == {"anon1", "anon2"}

\* gtk_text_buffer_create_mark(buf, NULL, iter, left_gravity): the handle of
\* the new mark
new_mark(buf) == CHOOSE m \in AnonMarks : m \notin DOMAIN buf.marks

gtk_text_buffer_create_mark(buf, mark, iter, left_gravity) ==
  [buf EXCEPT !.marks = [m \in DOMAIN buf.marks \cup {mark} |->
                           IF m = mark THEN Mark(iter, left_gravity)
                           ELSE buf.marks[m]]]

\* gtk_text_buffer_delete_mark
gtk_text_buffer_delete_mark(buf, mark) ==
  [buf EXCEPT !.marks = [m \in DOMAIN buf.marks \ {mark} |-> buf.marks[m]]]

\* gtk_text_buffer_set_text(buf, text, -1): deletes the whole content, which
\* collapses every mark to the start, then inserts the text at the start.
gtk_text_buffer_set_text(buf, text) ==
  gtk_text_buffer_insert(
    [buf EXCEPT !.text = <<>>,
                !.marks = [m \in DOMAIN buf.marks |->
                             Mark(0, buf.marks[m].left_gravity)]],
    0, text)

\* A text view inside its scrolled window: the vertical adjustment of the
\* window, and the buffer offset of the scroll the view was last asked for
\* (the toolkit carries it out when it next lays out the text).
NullView ==
  [null |-> TRUE, value |-> 0, upper |-> 0, page_size |-> 0,
   scroll_target |-> NoOffset]

View(value, upper, page_size) ==
  [null |-> FALSE, value |-> value, upper |-> upper, page_size |-> page_size,
   scroll_target |-> NoOffset]

\* gtk_text_view_scroll_to_mark / gtk_text_view_scroll_to_iter with
\* (within_margin 0.0, use_align TRUE, xalign 1.0, yalign 0.0)
gtk_text_view_scroll_to(textview, offset) ==
  [textview EXCEPT !.scroll_target = offset]

(***************************************************************************)
(* The chat output window.                                                 *)
(***************************************************************************)
\* The distance from the bottom below which an append scrolls (line 94).
near_bottom_distance == 10

\* The mark with right gravity (FALSE for TRUE at line 113).
mark_right_gravity == FALSE

\* The gravity given to the scroll target mark (line 113).
mark_left_gravity == TRUE

\* scroll_if_necessary with the test of line 94 off by one (<= for <).
scroll_if_necessary_at_margin(name, textview, scroll_target) ==
  LET val == textview.value
      max == textview.upper - textview.page_size
  IN IF max - val <= near_bottom_distance
     THEN [view |-> gtk_text_view_scroll_to(textview, scroll_target),
           calls |-> <<Call("gtk_text_view_scroll_to_mark", name, <<>>,
                            scroll_target)>>]
     ELSE [view |-> textview, calls |-> <<>>]

\* scroll_if_necessary(textview, scroll_target): the view afterwards and the
\* calls made.  `name` only labels the view in the trace; `scroll_target` is
\* the offset the mark has at the time of the call.
scroll_if_necessary(name, textview, scroll_target) ==
  LET val == textview.value
      max == textview.upper - textview.page_size
  IN IF max - val < near_bottom_distance
     THEN [view |-> gtk_text_view_scroll_to(textview, scroll_target),
           calls |-> <<Call("gtk_text_view_scroll_to_mark", name, <<>>,
                            scroll_target)>>]
     ELSE [view |-> textview, calls |-> <<>>]

\* The view afterwards / the calls made, for a view pointer that may be null
\* (lines 128-133).
scroll_view_if_set(name, textview, scroll_target) ==
  IF textview.null
  THEN [view |-> textview, calls |-> <<>>]
  ELSE scroll_if_necessary(name, textview, scroll_target)

\* time(NULL) and the zone offset localtime() applies, as they may be when
\* a line is appended: 12:34:56 and 01:46:40 in UTC, and 20:46:40 of the day
\* before, five hours west of it.
Clocks == {<<45296, 0>>, <<1000000000, 0>>, <<1000000000, -18000>>}

\* localtime(&now): the broken-down local time of day
localtime(now, gmtoff) ==
  LET t == (now + gmtoff) % 86400
  IN [tm_hour |-> t \div 3600, tm_min |-> (t % 3600) \div 60,
      tm_sec |-> t % 60]

Digits == <<"0", "1", "2", "3", "4", "5", "6", "7", "8", "9">>

\* %H, %M, %S: a decimal number of two digits, zero padded
two_digits(n) == <<Digits[(n \div 10) + 1], Digits[(n % 10) + 1]>>

\* strftime with the format "[%H:%M:%S]", the space after the bracket lost.
strftime_chat_no_space(tm) ==
  <<"[">> \o two_digits(tm.tm_hour) \o <<":">> \o two_digits(tm.tm_min)
  \o <<":">> \o two_digits(tm.tm_sec) \o <<"]">>

\* strftime(timebuf, sizeof(timebuf), "[%H:%M:%S] ", now_tm)
strftime_chat(tm) ==
  <<"[">> \o two_digits(tm.tm_hour) \o <<":">> \o two_digits(tm.tm_min)
  \o <<":">> \o two_digits(tm.tm_sec) \o <<"]", " ">>

\* Strings appended to the output window, with and without newlines.
OutStrings == {<<>>, <<"a">>, <<"a", "\n", "b">>}

\* gettext: _("Cleared output window."), untranslated
ClearedText ==
  <<"C", "l", "e", "a", "r", "e", "d", " ", "o", "u", "t", "p", "u", "t",
    " ", "w", "i", "n", "d", "o", "w", ".">>

Newlines(text) == Cardinality({i \in 1..Len(text) : text[i] = "\n"})

\* What a call into the toolkit with a null object does is not defined by
\* the toolkit: a build with its argument checks compiled in logs a
\* critical warning and returns from the call, a build without them
\* dereferences the null pointer.
process_dies ==
  /\ alive' = FALSE
  /\ calls' = <<>>
  /\ UNCHANGED <<chat_vars, output_vars, show_chat_message_time>>

\* append_line ending the new line with the newline instead of starting a
\* new line with it.
append_line_newline_last(buf0, show_time, now, gmtoff, astring) ==
  LET iter0 == gtk_text_buffer_get_end_iter(buf0)
      mark == new_mark(buf0)
      buf2 == gtk_text_buffer_create_mark(buf0, mark, iter0, mark_left_gravity)
      timebuf == strftime_chat(localtime(now, gmtoff))
      buf3 == IF show_time
              THEN gtk_text_buffer_insert(buf2, iter0, timebuf)
              ELSE buf2
      iter3 == IF show_time THEN iter_after_insert(iter0, timebuf) ELSE iter0
      buf4 == gtk_text_buffer_insert(buf3, iter3, astring)
      iter4 == iter_after_insert(iter3, astring)
      buf5 == gtk_text_buffer_insert(buf4, iter4, <<"\n">>)
  IN [buffer |-> buf5, mark |-> mark,
      calls |->
        <<Call("gtk_text_buffer_create_mark", "", <<>>, iter0)>>
        \o (IF show_time
            THEN <<Call("time", "", <<>>, now),
                   Call("localtime", "", <<>>, gmtoff),
                   Call("gtk_text_buffer_insert", "", timebuf, iter0)>>
            ELSE <<>>)
        \o <<Call("gtk_text_buffer_insert", "", astring, iter3),
             Call("gtk_text_buffer_insert", "", <<"\n">>, iter4)>>]

\* Lines 111-126 of real_append_output_window on a buffer: the buffer with
\* the new line and the scroll target mark, the mark, and the calls made.
\* `now` is what time() returned and `gmtoff` the offset localtime() applied.
append_line(buf0, show_time, now, gmtoff, astring) ==
  LET iter0 == gtk_text_buffer_get_end_iter(buf0)
      buf1 == gtk_text_buffer_insert(buf0, iter0, <<"\n">>)
      iter1 == iter_after_insert(iter0, <<"\n">>)
      mark == new_mark(buf1)
      buf2 == gtk_text_buffer_create_mark(buf1, mark, iter1, mark_left_gravity)
      timebuf == strftime_chat(localtime(now, gmtoff))
      buf3 == IF show_time
              THEN gtk_text_buffer_insert(buf2, iter1, timebuf)
              ELSE buf2
      iter3 == IF show_time THEN iter_after_insert(iter1, timebuf) ELSE iter1
      buf4 == gtk_text_buffer_insert(buf3, iter3, astring)
  IN [buffer |-> buf4, mark |-> mark,
      calls |->
        <<Call("gtk_text_buffer_insert", "", <<"\n">>, iter0),
          Call("gtk_text_buffer_create_mark", "", <<>>, iter1)>>
        \o (IF show_time
            THEN <<Call("time", "", <<>>, now),
                   Call("localtime", "", <<>>, gmtoff),
                   Call("gtk_text_buffer_insert", "", timebuf, iter1)>>
            ELSE <<>>)
        \o <<Call("gtk_text_buffer_insert", "", astring, iter3)>>]

\* real_append_output_window(astring, conn_id) on a buffer (lines 110-136):
\* the buffer, the views and the trace afterwards.
append_result(buf0, main, start, show_time, now, gmtoff, astring) ==
  LET line == append_line(buf0, show_time, now, gmtoff, astring)
      target == line.buffer.marks[line.mark].offset
      m == scroll_view_if_set("main_message_area", main, target)
      st == scroll_view_if_set("start_message_area", start, target)
  IN [buffer |-> gtk_text_buffer_delete_mark(line.buffer, line.mark),
      main |-> m.view, start |-> st.view,
      calls |->
        line.calls \o m.calls \o st.calls
        \o <<Call("gtk_text_buffer_delete_mark", "", <<>>, target),
             Call("append_network_statusbar", "", astring, NoOffset)>>]

real_append_output_window(astring, now, gmtoff) ==
  /\ alive
  /\ handler' = "real_append_output_window"
  /\ \/ /\ ~message_buffer.null
        /\ Newlines(message_buffer.text) < MaxLines
        /\ LET r == append_result(message_buffer, main_message_area,
                                  start_message_area, show_chat_message_time,
                                  now, gmtoff, astring)
           IN /\ message_buffer' = r.buffer
              /\ main_message_area' = r.main
              /\ start_message_area' = r.start
              /\ calls' = r.calls
        /\ UNCHANGED <<chat_vars, show_chat_message_time, alive>>
     \/ \* no buffer, argument checks: every buffer call returns at once, the
        \* mark is NULL and scroll_if_necessary returns at line 83
        /\ message_buffer.null
        /\ calls' = <<Call("append_network_statusbar", "", astring, NoOffset)>>
        /\ UNCHANGED <<chat_vars, output_vars, show_chat_message_time, alive>>
     \/ \* no buffer, no argument checks
        /\ message_buffer.null
        /\ process_dies

\* log_output_window (lines 144-154)
log_output_window ==
  /\ alive
  /\ handler' = "log_output_window"
  /\ \/ /\ ~message_buffer.null
        /\ calls' = <<Call("write_chatline_content", "", message_buffer.text,
                           NoOffset)>>
        /\ UNCHANGED <<chat_vars, output_vars, show_chat_message_time, alive>>
     \/ /\ message_buffer.null
        /\ process_dies

\* set_output_window_text(text) (lines 167-170)
set_output_window_text(text) ==
  /\ alive
  /\ handler' = "set_output_window_text"
  /\ \/ /\ ~message_buffer.null
        /\ message_buffer' = gtk_text_buffer_set_text(message_buffer, text)
        /\ calls' = <<Call("gtk_text_buffer_set_text", "", text, NoOffset)>>
        /\ UNCHANGED <<chat_vars, main_message_area, start_message_area,
                       show_chat_message_time, alive>>
     \/ /\ message_buffer.null
        /\ calls' = <<>>
        /\ UNCHANGED <<chat_vars, output_vars, show_chat_message_time, alive>>
     \/ /\ message_buffer.null
        /\ process_dies

\* clear_output_window (lines 159-162)
clear_output_window == set_output_window_text(ClearedText)

\* scroll_to_end_if_set scrolling only a view that is near the bottom, as
\* an append does.
scroll_to_end_if_near(name, textview, end) ==
  IF textview.null \/ ~(textview.upper - textview.page_size - textview.value
                        < near_bottom_distance)
  THEN [view |-> textview, calls |-> <<>>]
  ELSE [view |-> gtk_text_view_scroll_to(textview, end),
        calls |-> <<Call("gtk_text_view_scroll_to_iter", name, <<>>, end)>>]

\* One view of chatline_scroll_to_bottom (lines 184-191).
scroll_to_end_if_set(name, textview, end) ==
  IF textview.null
  THEN [view |-> textview, calls |-> <<>>]
  ELSE [view |-> gtk_text_view_scroll_to(textview, end),
        calls |-> <<Call("gtk_text_view_scroll_to_iter", name, <<>>, end)>>]

\* chatline_scroll_to_bottom (lines 175-192)
chatline_scroll_to_bottom ==
  /\ alive
  /\ handler' = "chatline_scroll_to_bottom"
  /\ IF message_buffer.null
     THEN /\ calls' = <<>>
          /\ UNCHANGED <<main_message_area, start_message_area>>
     ELSE LET end == gtk_text_buffer_get_end_iter(message_buffer)
              m == scroll_to_end_if_set("main_message_area",
                                        main_message_area, end)
              st == scroll_to_end_if_set("start_message_area",
                                         start_message_area, end)
          IN /\ main_message_area' = m.view
             /\ start_message_area' = st.view
             /\ calls' = m.calls \o st.calls
  /\ UNCHANGED <<chat_vars, message_buffer, show_chat_message_time, alive>>

(***************************************************************************)
(* The environment of the output window.                                   *)
(***************************************************************************)
\* The vertical adjustments a view may be found with (lines 89-93): the
\* value is kept within [0, max(0, upper - page_size)].
Uppers ==
  {0} \cup {near_bottom_distance + PageSize + d : d \in -1..MaxValue}

Adjustments ==
  {adj \in {View(v, u, PageSize) : v \in 0..MaxValue, u \in Uppers} :
     adj.value <= Max(0, adj.upper - adj.page_size)}

\* The toolkit lays the text out again, carries out a scroll it was asked
\* for, or the user moves the scroll bar: the adjustment changes.
main_adjustment_changed(adj) ==
  /\ alive
  /\ ~main_message_area.null
  /\ main_message_area # adj
  /\ main_message_area' = adj
  /\ handler' = "adjustment_changed"
  /\ calls' = <<>>
  /\ UNCHANGED <<chat_vars, message_buffer, start_message_area,
                 show_chat_message_time, alive>>

start_adjustment_changed(adj) ==
  /\ alive
  /\ ~start_message_area.null
  /\ start_message_area # adj
  /\ start_message_area' = adj
  /\ handler' = "adjustment_changed"
  /\ calls' = <<>>
  /\ UNCHANGED <<chat_vars, message_buffer, main_message_area,
                 show_chat_message_time, alive>>

(***************************************************************************)
(* Specifications.                                                         *)
(***************************************************************************)
\* The history list and the entry after chatline_init (the list is empty).
InitChat ==
  /\ history_list = <<>>
  /\ history_pos = -1
  /\ entry_text = <<>>
  /\ chat_sent = <<>>

\* The output window: the buffer and either view may not exist (yet), the
\* option is as the user set it.
InitOutput ==
  /\ message_buffer \in {NullBuffer, NewBuffer}
  /\ main_message_area \in {NullView, View(0, 0, PageSize)}
  /\ start_message_area \in {NullView, View(0, 0, PageSize)}
  /\ show_chat_message_time \in BOOLEAN
  /\ handler = "none"
  /\ calls = <<>>
  /\ alive = TRUE

Init == InitChat /\ InitOutput

NextChat ==
  \/ \E text \in InputTexts : entry_changed(text)
  \/ inputline_return

NextOutput ==
  \/ \E astring \in OutStrings, clock \in Clocks :
       real_append_output_window(astring, clock[1], clock[2])
  \/ log_output_window
  \/ \E text \in OutStrings : set_output_window_text(text)
  \/ clear_output_window
  \/ chatline_scroll_to_bottom

NextAdjust ==
  \/ \E adj \in Adjustments : main_adjustment_changed(adj)
  \/ \E adj \in Adjustments : start_adjustment_changed(adj)

Next == NextChat \/ NextOutput \/ NextAdjust

Spec == Init /\ [][Next]_vars

\* The chat input line alone.
SpecHistory == Init /\ [][NextChat]_vars

\* The text of the output window, with the views as they were created.
SpecText == Init /\ [][NextOutput]_vars

\* The scrolling of the output window, for one string and one time.
NextScroll ==
  \/ real_append_output_window(<<"a">>, 45296, 0)
  \/ set_output_window_text(<<>>)
  \/ chatline_scroll_to_bottom
  \/ NextAdjust

SpecScroll == Init /\ [][NextScroll]_vars

(***************************************************************************)
(* Properties.                                                             *)
(***************************************************************************)
\* The texts of a history list, head first.
Texts(list) == [i \in 1..Len(list) |-> list[i].str]

\* A step of inputline_return, with the entry holding a text / no text.
SubmitStep == handler' = "inputline_return" /\ entry_text # <<>>
EmptySubmitStep == handler' = "inputline_return" /\ entry_text = <<>>

\* C1: the history list never holds more than MAX_CHATLINE_HISTORY entries;
\* a non-empty submission makes it one longer when it was below the cap and
\* leaves its size alone when it was at the cap; an empty one leaves it alone.
C1_HistoryCapped ==
  [][/\ genlist_size(history_list) <= MAX_CHATLINE_HISTORY
     /\ genlist_size(history_list') <= MAX_CHATLINE_HISTORY
     /\ SubmitStep =>
          genlist_size(history_list') =
            IF genlist_size(history_list) < MAX_CHATLINE_HISTORY
            THEN genlist_size(history_list) + 1
            ELSE genlist_size(history_list)
     /\ EmptySubmitStep => history_list' = history_list]_vars

\* A text was submitted to a full history list, which is still full.
C1_Witness ==
  /\ handler = "inputline_return"
  /\ Len(chat_sent) > MAX_CHATLINE_HISTORY
  /\ genlist_size(history_list) = MAX_CHATLINE_HISTORY
  /\ Texts(history_list)[1] = chat_sent[Len(chat_sent)]

Min(a, b) == IF a < b THEN a ELSE b

\* The most recent n of the texts sent, newest first.
MostRecent(sent, n) == [i \in 1..n |-> sent[Len(sent) - i + 1]]

\* C5: the history list holds the most recent min(k, MAX_CHATLINE_HISTORY)
\* of the k non-empty texts submitted, newest at the head, duplicates kept;
\* a submission to a full list drops exactly the tail and keeps the other
\* entries, in their order, behind the new head.
C5_HistoryOrder ==
  /\ [](Texts(history_list) =
          MostRecent(chat_sent, Min(Len(chat_sent), MAX_CHATLINE_HISTORY)))
  /\ [][SubmitStep =>
          /\ history_list'[1].str = entry_text
          /\ SubSeq(history_list', 2, Len(history_list')) =
               IF Len(history_list) >= MAX_CHATLINE_HISTORY
               THEN SubSeq(history_list, 1, Len(history_list) - 1)
               ELSE history_list]_vars

\* The tail was dropped from a full list that holds the same text twice.
C5_Witness ==
  /\ handler = "inputline_return"
  /\ Len(chat_sent) > MAX_CHATLINE_HISTORY
  /\ Len(history_list) = MAX_CHATLINE_HISTORY
  /\ \E i, j \in 1..Len(history_list) :
       i < j /\ history_list[i].str = history_list[j].str
  /\ history_list[Len(history_list)].str # chat_sent[1]

\* A step of real_append_output_window on an existing buffer.
AppendStep ==
  handler' = "real_append_output_window" /\ ~message_buffer.null

\* The calls of a trace to one function.
CallsTo(trace, fn) == {i \in 1..Len(trace) : trace[i].fn = fn}

\* The scrolls a trace asks of one view.
ScrollsOf(trace, fn, name) ==
  {i \in CallsTo(trace, fn) : trace[i].view = name}

\* How far above the bottom a view is scrolled.
DistanceFromBottom(view) == (view.upper - view.page_size) - view.value

\* An append scrolls `view` to the start of the line appended to `text` if
\* and only if the view exists and is less than 10 above the bottom, and
\* leaves it as it was otherwise; `after` is the view after the step.
ScrolledIffNearBottom(name, view, after, text) ==
  IF ~view.null /\ DistanceFromBottom(view) < 10
  THEN /\ ScrollsOf(calls', "gtk_text_view_scroll_to_mark", name) # {}
       /\ after = [view EXCEPT !.scroll_target = Len(text) + 1]
  ELSE /\ ScrollsOf(calls', "gtk_text_view_scroll_to_mark", name) = {}
       /\ after = view

\* C2: an append scrolls each existing view to the new line if and only if
\* that view's own adjustment has (upper - page_size) - value < 10, whatever
\* the other view's adjustment; a view further up, or a null view pointer, is
\* left as it was.
C2_ScrollOnlyNearBottom ==
  [][AppendStep =>
       /\ ScrolledIffNearBottom("main_message_area", main_message_area,
                                main_message_area', message_buffer.text)
       /\ ScrolledIffNearBottom("start_message_area", start_message_area,
                                start_message_area', message_buffer.text)]_vars

\* An append found the in-game view exactly 10 above the bottom and left it,
\* and found the pregame view 9 above the bottom and scrolled it.
C2_Witness ==
  /\ handler = "real_append_output_window"
  /\ ~message_buffer.null
  /\ ~main_message_area.null /\ ~start_message_area.null
  /\ DistanceFromBottom(main_message_area) = 10
  /\ DistanceFromBottom(start_message_area) = 9
  /\ ScrollsOf(calls, "gtk_text_view_scroll_to_mark", "main_message_area") = {}
  /\ ScrollsOf(calls, "gtk_text_view_scroll_to_mark", "start_message_area")
       # {}
  /\ start_message_area.scroll_target > main_message_area.scroll_target

\* chatline_scroll_to_bottom scrolls `view` to the end of `text` if the view
\* exists, wherever it is scrolled to; `after` is the view after the step.
ScrolledToEnd(name, view, after, text) ==
  IF view.null
  THEN /\ ScrollsOf(calls', "gtk_text_view_scroll_to_iter", name) = {}
       /\ after = view
  ELSE /\ \E i \in ScrollsOf(calls', "gtk_text_view_scroll_to_iter", name) :
            calls'[i].num = Len(text)
       /\ after = [view EXCEPT !.scroll_target = Len(text)]

\* C4: chatline_scroll_to_bottom does nothing without a buffer; with one it
\* scrolls every existing view to the end of the buffer, wherever the view
\* is scrolled to, and skips a null view pointer; the buffer is unchanged.
C4_ScrollToBottom ==
  [][handler' = "chatline_scroll_to_bottom" =>
       /\ message_buffer' = message_buffer
       /\ alive'
       /\ IF message_buffer.null
          THEN /\ calls' = <<>>
               /\ main_message_area' = main_message_area
               /\ start_message_area' = start_message_area
          ELSE /\ ScrolledToEnd("main_message_area", main_message_area,
                                main_message_area', message_buffer.text)
               /\ ScrolledToEnd("start_message_area", start_message_area,
                                start_message_area', message_buffer.text)]_vars

\* chatline_scroll_to_bottom scrolled the in-game view, which was 10 or more
\* above the bottom, to the end of a buffer with text; there is no pregame
\* view.
C4_Witness ==
  /\ handler = "chatline_scroll_to_bottom"
  /\ ~message_buffer.null /\ Len(message_buffer.text) > 0
  /\ ~main_message_area.null /\ start_message_area.null
  /\ DistanceFromBottom(main_message_area) >= 10
  /\ main_message_area.scroll_target = Len(message_buffer.text)
  /\ Len(calls) = 1

\* The string an append was called with, as append_network_statusbar got it.
Appended(trace) == trace[Len(trace)].text

\* What an append put behind the text `before`: the character right after
\* it, and the line after that character.
Separator(before, after) == SubSeq(after, Len(before) + 1, Len(before) + 1)
NewLine(before, after) == SubSeq(after, Len(before) + 2, Len(after))

\* The part of the new line in front of the string `str`.
Prefix(line, str) == SubSeq(line, 1, Len(line) - Len(str))

\* The lines of a text: the parts between its newlines.
RECURSIVE SplitLines(_)
SplitLines(text) ==
  IF \A i \in 1..Len(text) : text[i] # "\n"
  THEN <<text>>
  ELSE LET k == CHOOSE i \in 1..Len(text) :
                  text[i] = "\n" /\ \A j \in 1..(i - 1) : text[j] # "\n"
       IN <<SubSeq(text, 1, k - 1)>>
          \o SplitLines(SubSeq(text, k + 1, Len(text)))

NewlineFree(text) == \A i \in 1..Len(text) : text[i] # "\n"

EndsWithNewline(text) == text # <<>> /\ text[Len(text)] = "\n"

\* The buffer after an append is the text before, a newline, the timestamp
\* if the option is set (11 characters) and the string; the lines of the
\* text before stay as they were and a newline-free string, with its
\* timestamp, is the one line added after them.
AppendsOwnLine ==
  LET before == message_buffer.text
      after == message_buffer'.text
      str == Appended(calls')
      line == NewLine(before, after)
  IN /\ Len(after) >= Len(before) + 1 + Len(str)
     /\ SubSeq(after, 1, Len(before)) = before
     /\ Separator(before, after) = <<"\n">>
     /\ SubSeq(line, Len(line) - Len(str) + 1, Len(line)) = str
     /\ Len(Prefix(line, str)) = IF show_chat_message_time THEN 11 ELSE 0
     /\ NewlineFree(str) =>
          SplitLines(after) = Append(SplitLines(before), line)

\* C3 as stated: every append adds a newline, the optional timestamp and the
\* string to the unmodified text, a newline-free string gets a line of its
\* own after the lines before, and the buffer does not end with a newline.
C3_AsStated ==
  [][AppendStep =>
       /\ AppendsOwnLine
       /\ NewlineFree(Appended(calls')) =>
            ~EndsWithNewline(message_buffer'.text)]_vars

\* C3, amended: as stated, but the buffer does not end with a newline
\* provided the line appended (timestamp and string) is not empty; no
\* newline is ever added after the string.
C3_AppendOwnLine ==
  [][AppendStep =>
       /\ AppendsOwnLine
       /\ (NewlineFree(Appended(calls'))
           /\ NewLine(message_buffer.text, message_buffer'.text) # <<>>) =>
            ~EndsWithNewline(message_buffer'.text)
       /\ NewLine(message_buffer.text, message_buffer'.text) = <<>> =>
            /\ Appended(calls') = <<>>
            /\ ~show_chat_message_time
            /\ EndsWithNewline(message_buffer'.text)]_vars

\* Two newline-free strings were appended with timestamps, the second to a
\* buffer that already held the first: three lines, the first one empty.
C3_Witness ==
  /\ handler = "real_append_output_window"
  /\ ~message_buffer.null
  /\ show_chat_message_time
  /\ Len(SplitLines(message_buffer.text)) = 3
  /\ SplitLines(message_buffer.text)[1] = <<>>
  /\ Len(SplitLines(message_buffer.text)[2]) = 11
  /\ Len(SplitLines(message_buffer.text)[3]) = 12
  /\ Appended(calls) = <<"a">>

\* The offset the scroll target mark had when the view was scrolled to it /
\* when it was deleted.
MarkOffsets(trace) ==
  {trace[i].num : i \in CallsTo(trace, "gtk_text_view_scroll_to_mark")
                         \cup CallsTo(trace, "gtk_text_buffer_delete_mark")}

\* The mark of an append is created right after the newline went in and
\* before any other text does, stays at the start of the new line while the
\* timestamp and the string go in, is what the views are scrolled to, and is
\* deleted after the scrolls, leaving the buffer with the marks it had.
MarkAtLineStart ==
  LET before == message_buffer.text
      trace == calls'
      inserts == CallsTo(trace, "gtk_text_buffer_insert")
      created == CallsTo(trace, "gtk_text_buffer_create_mark")
      scrolls == CallsTo(trace, "gtk_text_view_scroll_to_mark")
      deleted == CallsTo(trace, "gtk_text_buffer_delete_mark")
  IN /\ trace[1].fn = "gtk_text_buffer_insert" /\ trace[1].text = <<"\n">>
     /\ trace[1].num = Len(before)
     /\ created = {2} /\ trace[2].num = Len(before) + 1
     /\ \A i \in inserts \ {1} : i > 2
     /\ MarkOffsets(trace) = {Len(before) + 1}
     /\ \A i \in scrolls : \A j \in inserts : j < i
     /\ Cardinality(deleted) = 1
     /\ \A i \in deleted : i < Len(trace) /\ \A j \in scrolls : j < i
     /\ DOMAIN message_buffer'.marks = DOMAIN message_buffer.marks
     /\ \A v \in {main_message_area', start_message_area'} :
          (~v.null /\ scrolls # {}) => v.scroll_target = Len(before) + 1

\* Where the last line of a text starts.
StartOfLastLine(text) ==
  Len(text) - Len(SplitLines(text)[Len(SplitLines(text))])

DigitValue(c) ==
  CASE c = "0" -> 0 [] c = "1" -> 1 [] c = "2" -> 2 [] c = "3" -> 3
    [] c = "4" -> 4 [] c = "5" -> 5 [] c = "6" -> 6 [] c = "7" -> 7
    [] c = "8" -> 8 [] c = "9" -> 9 [] OTHER -> 10

TwoDigitValue(stamp, i) ==
  IF DigitValue(stamp[i]) < 10 /\ DigitValue(stamp[i + 1]) < 10
  THEN 10 * DigitValue(stamp[i]) + DigitValue(stamp[i + 1])
  ELSE 100

\* `stamp` is "[HH:MM:SS] " for the time of day `secs`, in seconds.
IsTimeStamp(stamp, secs) ==
  /\ Len(stamp) = 11
  /\ stamp[1] = "[" /\ stamp[4] = ":" /\ stamp[7] = ":"
  /\ stamp[10] = "]" /\ stamp[11] = " "
  /\ TwoDigitValue(stamp, 2) < 24
  /\ TwoDigitValue(stamp, 5) < 60
  /\ TwoDigitValue(stamp, 8) < 60
  /\ 3600 * TwoDigitValue(stamp, 2) + 60 * TwoDigitValue(stamp, 5)
       + TwoDigitValue(stamp, 8) = secs

\* The local time of day, in seconds, at which the trace read the clock.
LocalSeconds(trace) ==
  LET now == trace[CHOOSE i \in CallsTo(trace, "time") : TRUE].num
      gmtoff == trace[CHOOSE i \in CallsTo(trace, "localtime") : TRUE].num
      utc == now - 86400 * (now \div 86400)
  IN IF utc + gmtoff < 0 THEN utc + gmtoff + 86400
     ELSE IF utc + gmtoff >= 86400 THEN utc + gmtoff - 86400
     ELSE utc + gmtoff

\* C7: with show_chat_message_time the appended line is "[HH:MM:SS] " in
\* local time and then the string, without it the line is the string alone;
\* either way append_network_statusbar gets the string without the prefix,
\* once, as the last call of the handler.
C7_TimestampFormat ==
  [][AppendStep =>
       LET line == NewLine(message_buffer.text, message_buffer'.text)
           status == CallsTo(calls', "append_network_statusbar")
           str == calls'[Len(calls')].text
       IN /\ status = {Len(calls')}
          /\ Separator(message_buffer.text, message_buffer'.text) = <<"\n">>
          /\ IF show_chat_message_time
             THEN /\ Len(line) >= 11
                  /\ Cardinality(CallsTo(calls', "time")) = 1
                  /\ IsTimeStamp(SubSeq(line, 1, 11), LocalSeconds(calls'))
                  /\ str = SubSeq(line, 12, Len(line))
             ELSE /\ CallsTo(calls', "time") = {}
                  /\ str = line]_vars

\* A line was appended with the timestamp of 20:46:40, the local time five
\* hours west of 01:46:40 UTC, and the status bar got the string alone.
C7_Witness ==
  /\ handler = "real_append_output_window"
  /\ ~message_buffer.null /\ show_chat_message_time
  /\ Len(message_buffer.text) = 13
  /\ SubSeq(message_buffer.text, 2, 12) =
       <<"[", "2", "0", ":", "4", "6", ":", "4", "0", "]", " ">>
  /\ calls[Len(calls)] =
       Call("append_network_statusbar", "", <<"a">>, NoOffset)
  /\ \E i \in CallsTo(calls, "localtime") : calls[i].num = -18000

====
